---- MODULE Spec2Model ----
(***************************************************************************)
(* Booking admission and the booking / space / payment lifecycle of the    *)
(* parking reservation server (Express route handlers over a Supabase     *)
(* store).  Every handler is a sequence of awaited store calls; each       *)
(* awaited call is one atomic step, so two requests interleave exactly at *)
(* the await points of the JavaScript code.                                *)
(*                                                                         *)
(* Time is counted in ticks of half an hour.  Money is an integer.         *)
(*                                                                         *)
(* The browser side is the state of the two React providers (AuthContext, *)
(* ParkingContext): their reducers and the provider calls that await a     *)
(* service call.                                                           *)
(***************************************************************************)
EXTENDS Integers, Sequences, FiniteSets, TLC

\* ---------------------------------------------------------------- bounds
MaxTime == 2
MaxBookings == 2
MaxPayments == 2
MaxCalls == 3
MaxClientBookings == 2
TicksPerHour == 2

\* ---------------------------------------------------------------- inputs
Procs == {"r1", "r2"}
SpaceIds == {"S1", "S2"}
\* "cust" books; "guest" is another customer; "boss" is an admin
Owners == {"cust"}
Users == {"cust", "guest", "boss"}
Times == 0..MaxTime
BookingIds == 1..MaxBookings
PaymentIds == 1..MaxPayments
\* the requests that may arrive while another one is in flight: one per slot
MaxOverlap == Cardinality(Procs)

\* users.role
Role(u) == IF u = "boss" THEN "admin" ELSE "customer"

\* parking_spaces.hourly_rate of the seeded rows used here
HourlyRate(sp) == IF sp = "S1" THEN 10 ELSE 12

BookingStatuses == {"pending", "confirmed", "active", "completed", "cancelled"}
LiveStatuses == {"pending", "confirmed", "active"}
\* CREATE TYPE space_status
SpaceStatuses == {"available", "occupied", "reserved", "maintenance"}
\* the statuses a space update request carries here
ServiceStatuses == {"available", "maintenance"}

VARIABLES
  parking_spaces,   \* table parking_spaces: id -> [status, hourly_rate]
  bookings,         \* table bookings: sequence of rows, id = position
  payments,         \* table payments: sequence of rows, id = position
  pc,               \* per request slot: the await point it is suspended at
  req,              \* per request slot: the request (req.body, req.params, req.user)
  out,              \* per request slot: the response of its last finished request
  calls,            \* requests received so far
  auth,             \* browser: the AuthProvider's reducer state
  parking,          \* browser: the ParkingProvider's reducer state
  promises          \* browser: the provider calls awaiting their service call

vars == <<parking_spaces, bookings, payments, pc, req, out, calls, auth, parking, promises>>

\* the state of the browser
clientVars == <<auth, parking, promises>>
\* the state of the server and its store
serverVars == <<parking_spaces, bookings, payments, pc, req, out, calls>>

\* the locals of a handler: the request and the row it fetched first
NoReq == [op |-> "none", user |-> "none", id |-> 0, space |-> "none",
          s |-> 0, e |-> 0, status |-> "none", amount |-> 0, rate |-> 0,
          seen |-> "none"]

\* ------------------------------------------------------------ pure parts

\* (mutant of Hours: the hours are rounded down)
HoursFloor(s, e) == (e - s) \div TicksPerHour

\* Math.ceil((end - start) / (1000 * 60 * 60))
Hours(s, e) == ((e - s) + TicksPerHour - 1) \div TicksPerHour

\* hours * space.hourly_rate
TotalAmount(s, e, rate) == Hours(s, e) * rate

\* the amounts a payment request may carry: every charge a booking can have
Amounts == {Hours(0, e) * HourlyRate(sp) : e \in 1..MaxTime, sp \in SpaceIds}

\* schemas.createBooking: endTime greater than startTime
ValidWindow(s, e) == s < e

\* .eq('space_id', spaceId).in('status', ['confirmed','active'])
\* .or(`start_time.lte.${endTime},end_time.gte.${startTime}`)
ConflictFilter(b, spaceId, startTime, endTime) ==
  /\ b.space_id = spaceId
  /\ b.status \in {"confirmed", "active"}
  /\ (b.start_time <= endTime \/ b.end_time >= startTime)

conflictingBookings(spaceId, startTime, endTime) ==
  {i \in 1..Len(bookings) : ConflictFilter(bookings[i], spaceId, startTime, endTime)}

\* GET /spaces/:id/availability: .eq('space_id', id).in('status', ['confirmed','active'])
\* .gte('end_time', startDate).lte('start_time', endDate)
AvailabilityFilter(b, spaceId, startDate, endDate) ==
  /\ b.space_id = spaceId
  /\ b.status \in {"confirmed", "active"}
  /\ b.end_time >= startDate
  /\ b.start_time <= endDate

\* bookings.map(booking => ({ startTime, endTime, status })), as windows
availability(spaceId, startDate, endDate) ==
  {<<bookings[i].start_time, bookings[i].end_time>> :
     i \in {j \in 1..Len(bookings) :
              AvailabilityFilter(bookings[j], spaceId, startDate, endDate)}}

\* GET /spaces/:id/availability with both dates given: the space row is not
\* read, the booking query alone decides the response
AvailabilityCheck(sp) == "ok"

\* (mutant of AccessDenied: only the owner passes)
AccessDeniedUnlessOwner(b, u) == b.user_id # u

\* existingBooking.user_id !== req.user.id && !['staff','admin'].includes(req.user.role)
AccessDenied(b, u) == b.user_id # u /\ Role(u) \notin {"staff", "admin"}

\* (mutant of NotCancellable: a completed booking passes the check)
NotCancellableOnlyCancelled(st) == st \in {"cancelled"}

\* ['completed', 'cancelled'].includes(booking.status)
NotCancellable(st) == st \in {"completed", "cancelled"}

\* (mutant of SpaceStatusFor: a cancelled booking keeps its space reserved)
SpaceStatusForKeepsReserved(st) ==
  IF st = "active" THEN "occupied"
  ELSE IF st \in {"confirmed", "cancelled"} THEN "reserved"
  ELSE "available"

\* let spaceStatus = 'available'; active -> occupied; confirmed -> reserved
SpaceStatusFor(st) ==
  IF st = "active" THEN "occupied"
  ELSE IF st = "confirmed" THEN "reserved"
  ELSE "available"

\* (mutant of PaidUpdate: the payment status alone is written)
PaidUpdatePaymentStatusOnly(b) == [b EXCEPT !.payment_status = "paid"]

\* .update({ payment_status: 'paid', status: 'confirmed' })
PaidUpdate(b) == [b EXCEPT !.payment_status = "paid", !.status = "confirmed"]

\* an awaited update or insert resolves to { data, error }: the table after
\* it is the written one, or the one before when the store reported an error
StoreWrite(before, written) == {before, written}

\* (mutant of CreateCheck: only a space in maintenance is refused)
CreateCheckMaintenanceOnly(sp, s, e) ==
  IF ~ValidWindow(s, e) THEN "InvalidWindow"
  ELSE IF sp \notin DOMAIN parking_spaces THEN "SpaceNotFound"
  ELSE IF parking_spaces[sp].status = "maintenance" THEN "SpaceUnavailable"
  ELSE "ok"

\* POST /bookings up to the first await's checks: validation, space row
CreateCheck(sp, s, e) ==
  IF ~ValidWindow(s, e) THEN "InvalidWindow"
  ELSE IF sp \notin DOMAIN parking_spaces THEN "SpaceNotFound"
  ELSE IF parking_spaces[sp].status # "available" THEN "SpaceUnavailable"
  ELSE "ok"

\* POST /bookings when no other request interleaves: the response it ends with
CreateOutcome(sp, s, e) ==
  IF CreateCheck(sp, s, e) # "ok" THEN CreateCheck(sp, s, e)
  ELSE IF conflictingBookings(sp, s, e) # {} THEN "Conflict"
  ELSE "Created"

\* PUT /bookings/:id up to the permission check; the requested status is
\* only validated against the enum (schemas.updateBooking)
UpdateCheck(u, id, st) ==
  IF st \notin BookingStatuses \cup {"none"} THEN "ValidationError"
  ELSE IF id > Len(bookings) THEN "BookingNotFound"
  ELSE IF AccessDenied(bookings[id], u) THEN "Forbidden"
  ELSE "ok"

\* DELETE /bookings/:id up to the cancellable check
CancelCheck(u, id) ==
  IF id > Len(bookings) THEN "BookingNotFound"
  ELSE IF AccessDenied(bookings[id], u) THEN "Forbidden"
  ELSE IF NotCancellable(bookings[id].status) THEN "NotCancellable"
  ELSE "ok"

\* (mutant of PaymentCheck: the amount is not compared)
PaymentCheckAnyAmount(u, id, amount) ==
  IF id > Len(bookings) THEN "BookingNotFound"
  ELSE IF bookings[id].user_id # u THEN "Forbidden"
  ELSE IF bookings[id].payment_status = "paid" THEN "AlreadyPaid"
  ELSE "ok"

\* POST /payments up to the already-paid check
PaymentCheck(u, id, amount) ==
  IF id > Len(bookings) THEN "BookingNotFound"
  ELSE IF bookings[id].user_id # u THEN "Forbidden"
  ELSE IF amount # bookings[id].total_amount THEN "AmountMismatch"
  ELSE IF bookings[id].payment_status = "paid" THEN "AlreadyPaid"
  ELSE "ok"

\* POST /payments/:id/refund up to the completed check
RefundCheck(u, id) ==
  IF Role(u) # "admin" THEN "Forbidden"
  ELSE IF id > Len(payments) THEN "PaymentNotFound"
  ELSE IF payments[id].status # "completed" THEN "NotRefundable"
  ELSE "ok"

\* PUT /spaces/:id up to the update: requireAdmin
SpaceUpdateCheck(u, sp) ==
  IF Role(u) # "admin" THEN "Forbidden"
  ELSE IF sp \notin DOMAIN parking_spaces THEN "SpaceNotFound"
  ELSE "ok"

\* DELETE /spaces/:id: .eq('space_id', id).in('status', ['pending','confirmed','active'])
activeBookings(spaceId) ==
  {i \in 1..Len(bookings) :
     bookings[i].space_id = spaceId /\ bookings[i].status \in {"pending", "confirmed", "active"}}

\* DELETE /spaces/:id up to the delete: requireAdmin, then the query for
\* pending, confirmed or active bookings of the space
DeleteCheck(u, sp) ==
  IF Role(u) # "admin" THEN "Forbidden"
  ELSE IF activeBookings(sp) # {} THEN "SpaceHasBookings"
  ELSE "ok"

\* bookings.space_id REFERENCES parking_spaces(id) ON DELETE CASCADE: the
\* bookings table after the row of space sp is deleted
CascadeBookings(sp) == SelectSeq(bookings, LAMBDA b : b.space_id # sp)

InFlight(p) == pc[p] \notin {"idle", "done"}
Quiet == \A q \in Procs : ~InFlight(q)
Creating == {p \in Procs : pc[p] \in {"checkConflicts", "insertBooking"}}
Paying == {p \in Procs : pc[p] = "insertPayment"}

\* A request may arrive at a free slot, MaxCalls requests in all.  While no
\* request is in flight the first slot takes it; only the first MaxOverlap
\* requests may arrive while another one is in flight.
CanCall(p) ==
  /\ ~InFlight(p)
  /\ calls < MaxCalls
  /\ IF Quiet THEN p = "r1" ELSE calls < MaxOverlap

\* the slots after a request arrived at p: responses already delivered are dropped
Arrive(f, p, v, none) ==
  [q \in Procs |-> IF q = p THEN v ELSE IF InFlight(q) THEN f[q] ELSE none]

\* the arriving request, of operation op, is answered at once
Reply(p, op, o) ==
  /\ pc' = Arrive(pc, p, "done", "idle")
  /\ req' = Arrive(req, p, [NoReq EXCEPT !.op = op], NoReq)
  /\ out' = Arrive(out, p, o, "none")
  /\ calls' = calls + 1
  /\ UNCHANGED clientVars

\* the arriving request is suspended at await point l
Enter(p, r, l) ==
  /\ pc' = Arrive(pc, p, l, "idle")
  /\ req' = Arrive(req, p, r, NoReq)
  /\ out' = Arrive(out, p, "none", "none")
  /\ calls' = calls + 1
  /\ UNCHANGED clientVars

\* a suspended request is answered
Finish(p, o) ==
  /\ pc' = [pc EXCEPT ![p] = "done"]
  /\ out' = [out EXCEPT ![p] = o]
  /\ UNCHANGED <<req, calls>>
  /\ UNCHANGED clientVars

\* a suspended request moves to await point l
Goto(p, l) ==
  /\ pc' = [pc EXCEPT ![p] = l]
  /\ UNCHANGED <<req, out, calls>>
  /\ UNCHANGED clientVars

\* ------------------------------------------------ browser: AuthContext

\* user: User | null
null == [id |-> "null"]

\* the values of the fields of a User
UserFields == {"id", "email", "name", "role", "phone"}
FieldValues(f) ==
  CASE f = "id" -> {"u1", "u2"}
    [] f = "email" -> {"a@x", "b@x"}
    [] f = "name" -> {"Ann", "Bob"}
    [] f = "role" -> {"customer", "admin", "staff"}
    [] f = "phone" -> {"undefined", "555", "777"}

\* User
UserValues == {u \in [UserFields -> UNION {FieldValues(f) : f \in UserFields}] :
                 \A f \in UserFields : u[f] \in FieldValues(f)}

\* Partial<User>: a User with some fields left out
PartialUsers == {[f \in F |-> u[f]] : F \in SUBSET UserFields, u \in UserValues}

\* { ...state.user, ...action.payload }
Spread(user, payload) ==
  [f \in DOMAIN user \cup DOMAIN payload |->
     IF f \in DOMAIN payload THEN payload[f] ELSE user[f]]

\* (mutant of authReducer: UPDATE_USER spreads the payload over a missing user)
authReducerSpreadsOverNull(state, action) ==
  CASE action.type = "LOGIN_START" -> [state EXCEPT !.loading = TRUE]
    [] action.type = "LOGIN_SUCCESS" ->
         [user |-> action.payload, isAuthenticated |-> TRUE, loading |-> FALSE]
    [] action.type = "LOGIN_FAILURE" ->
         [user |-> null, isAuthenticated |-> FALSE, loading |-> FALSE]
    [] action.type = "LOGOUT" ->
         [user |-> null, isAuthenticated |-> FALSE, loading |-> FALSE]
    [] action.type = "UPDATE_USER" ->
         [state EXCEPT !.user = IF state.user # null
                                  THEN Spread(state.user, action.payload)
                                  ELSE action.payload]
    [] action.type = "SET_LOADING" -> [state EXCEPT !.loading = action.payload]
    [] OTHER -> state

\* const authReducer = (state, action) => { switch (action.type) ... }
authReducer(state, action) ==
  CASE action.type = "LOGIN_START" -> [state EXCEPT !.loading = TRUE]
    [] action.type = "LOGIN_SUCCESS" ->
         [user |-> action.payload, isAuthenticated |-> TRUE, loading |-> FALSE]
    [] action.type = "LOGIN_FAILURE" ->
         [user |-> null, isAuthenticated |-> FALSE, loading |-> FALSE]
    [] action.type = "LOGOUT" ->
         [user |-> null, isAuthenticated |-> FALSE, loading |-> FALSE]
    [] action.type = "UPDATE_USER" ->
         [state EXCEPT !.user = IF state.user # null
                                  THEN Spread(state.user, action.payload)
                                  ELSE null]
    [] action.type = "SET_LOADING" -> [state EXCEPT !.loading = action.payload]
    [] OTHER -> state

\* the provider calls that may await at the same time
ClientCalls == {"k1", "k2"}
NoCall == [fn |-> "none", spaceId |-> "none", state |-> "none"]
Pending(k) == promises[k].state = "pending"

\* spaces: [] ; the lists parkingService.getSpaces() may resolve to, by id
NoSpaces == [sp \in {} |-> "available"]
SpaceLists == [SpaceIds -> SpaceStatuses]

\* const parkingReducer = (state, action) => { switch (action.type) ... },
\* the cases of spaces, bookings and loading
parkingReducer(state, action) ==
  CASE action.type = "SET_SPACES" -> [state EXCEPT !.spaces = action.payload]
    [] action.type = "UPDATE_SPACE" ->
         [state EXCEPT !.spaces =
            [sp \in DOMAIN state.spaces |->
               IF sp = action.payload.id THEN action.payload.updates.status
               ELSE state.spaces[sp]]]
    [] action.type = "ADD_BOOKING" ->
         [state EXCEPT !.bookings = Append(state.bookings, action.payload)]
    [] action.type = "SET_LOADING" -> [state EXCEPT !.loading = action.payload]
    [] OTHER -> state

\* <button type="submit" disabled={loading}>
SubmitDisabled == parking.loading

\* useReducer(authReducer, { user: null, isAuthenticated: false, loading: true })
\* useReducer(parkingReducer, { spaces: [], bookings: [], notifications: [], loading: false })
ClientInit ==
  /\ auth = [user |-> null, isAuthenticated |-> FALSE, loading |-> TRUE]
  /\ parking = [spaces |-> NoSpaces, bookings |-> <<>>, loading |-> FALSE]
  /\ promises = [k \in ClientCalls |-> NoCall]

\* login and register: dispatch({ type: 'LOGIN_START' })
LoginStart ==
  /\ auth' = authReducer(auth, [type |-> "LOGIN_START"])
  /\ UNCHANGED <<serverVars, parking, promises>>

\* login, register and the mount effect: dispatch({ type: 'LOGIN_SUCCESS', payload: user })
LoginSuccess ==
  /\ \E user \in UserValues :
       auth' = authReducer(auth, [type |-> "LOGIN_SUCCESS", payload |-> user])
  /\ UNCHANGED <<serverVars, parking, promises>>

\* login, register and the mount effect: dispatch({ type: 'LOGIN_FAILURE' })
LoginFailure ==
  /\ auth' = authReducer(auth, [type |-> "LOGIN_FAILURE"])
  /\ UNCHANGED <<serverVars, parking, promises>>

\* logout: dispatch({ type: 'LOGOUT' })
Logout ==
  /\ auth' = authReducer(auth, [type |-> "LOGOUT"])
  /\ UNCHANGED <<serverVars, parking, promises>>

\* updateUser: dispatch({ type: 'UPDATE_USER', payload: userData })
UpdateUser ==
  /\ \E userData \in PartialUsers :
       auth' = authReducer(auth, [type |-> "UPDATE_USER", payload |-> userData])
  /\ UNCHANGED <<serverVars, parking, promises>>

\* the mount effect: dispatch({ type: 'SET_LOADING', payload: false })
SetLoading ==
  /\ \E loading \in BOOLEAN :
       auth' = authReducer(auth, [type |-> "SET_LOADING", payload |-> loading])
  /\ UNCHANGED <<serverVars, parking, promises>>

AuthNext == LoginStart \/ LoginSuccess \/ LoginFailure \/ Logout \/ UpdateUser \/ SetLoading

\* --------------------------------------------- browser: ParkingContext

\* refreshSpaces up to its await: dispatch SET_LOADING true, getSpaces()
refreshSpaces(k) ==
  /\ ~Pending(k)
  /\ parking' = parkingReducer(parking, [type |-> "SET_LOADING", payload |-> TRUE])
  /\ promises' = [promises EXCEPT ![k] =
                    [fn |-> "refreshSpaces", spaceId |-> "none", state |-> "pending"]]
  /\ UNCHANGED <<serverVars, auth>>

\* getSpaces() settled: SET_SPACES when fulfilled, the catch block when
\* rejected; finally SET_LOADING false
refreshSpacesSettled(k) ==
  /\ Pending(k)
  /\ promises[k].fn = "refreshSpaces"
  /\ \/ /\ \E spaces \in SpaceLists :
            parking' = parkingReducer(
                         parkingReducer(parking, [type |-> "SET_SPACES", payload |-> spaces]),
                         [type |-> "SET_LOADING", payload |-> FALSE])
        /\ promises' = [promises EXCEPT ![k].state = "fulfilled"]
     \/ /\ parking' = parkingReducer(parking, [type |-> "SET_LOADING", payload |-> FALSE])
        /\ promises' = [promises EXCEPT ![k].state = "rejected"]
  /\ UNCHANGED <<serverVars, auth>>

\* handleSubmit of the booking form of a listed space, its button enabled:
\* bookSpace up to its await: dispatch SET_LOADING true, createBooking()
bookSpace(k) ==
  /\ ~Pending(k)
  /\ ~SubmitDisabled
  /\ Len(parking.bookings)
       + Cardinality({j \in ClientCalls : Pending(j) /\ promises[j].fn = "bookSpace"})
         < MaxClientBookings
  /\ \E spaceId \in DOMAIN parking.spaces :
       promises' = [promises EXCEPT ![k] =
                      [fn |-> "bookSpace", spaceId |-> spaceId, state |-> "pending"]]
  /\ parking' = parkingReducer(parking, [type |-> "SET_LOADING", payload |-> TRUE])
  /\ UNCHANGED <<serverVars, auth>>

\* createBooking() settled: ADD_BOOKING and UPDATE_SPACE reserved when
\* fulfilled, the catch block (log, rethrow) when rejected; finally
\* SET_LOADING false
bookSpaceSettled(k) ==
  /\ Pending(k)
  /\ promises[k].fn = "bookSpace"
  /\ \/ /\ parking' =
             parkingReducer(
               parkingReducer(
                 parkingReducer(parking,
                   [type |-> "ADD_BOOKING", payload |-> [spaceId |-> promises[k].spaceId]]),
                 [type |-> "UPDATE_SPACE",
                  payload |-> [id |-> promises[k].spaceId, updates |-> [status |-> "reserved"]]]),
               [type |-> "SET_LOADING", payload |-> FALSE])
        /\ promises' = [promises EXCEPT ![k].state = "fulfilled"]
     \/ /\ parking' = parkingReducer(parking, [type |-> "SET_LOADING", payload |-> FALSE])
        /\ promises' = [promises EXCEPT ![k].state = "rejected"]
  /\ UNCHANGED <<serverVars, auth>>

\* a provider call awaits its service call (pending) until the promise is
\* fulfilled or rejected
ParkingNext ==
  \E k \in ClientCalls :
    \/ refreshSpaces(k)
    \/ refreshSpacesSettled(k)
    \/ bookSpace(k)
    \/ bookSpaceSettled(k)

\* ------------------------------------------------------------- server

Init ==
  /\ parking_spaces = [sp \in SpaceIds |-> [status |-> "available", hourly_rate |-> HourlyRate(sp)]]
  /\ bookings = <<>>
  /\ payments = <<>>
  /\ pc = [p \in Procs |-> "idle"]
  /\ req = [p \in Procs |-> NoReq]
  /\ out = [p \in Procs |-> "none"]
  /\ calls = 0
  /\ ClientInit

\* ------------------------------------------------- POST /bookings (create)

\* request arrives, validation, first read: the space row and its status
CreateBooking(p) ==
  /\ CanCall(p)
  /\ Len(bookings) + Cardinality(Creating) < MaxBookings
  /\ \E u \in Owners, sp \in SpaceIds \cup {"S0"}, s \in Times, e \in Times :
       LET r == [NoReq EXCEPT !.op = "create", !.user = u, !.space = sp, !.s = s, !.e = e] IN
       /\ UNCHANGED <<parking_spaces, bookings, payments>>
       /\ IF CreateCheck(sp, s, e) # "ok" THEN Reply(p, "create", CreateCheck(sp, s, e))
          ELSE Enter(p, [r EXCEPT !.rate = parking_spaces[sp].hourly_rate,
                                  !.seen = parking_spaces[sp].status], "checkConflicts")

\* second read: the conflict query
CreateCheckConflicts(p) ==
  /\ pc[p] = "checkConflicts"
  /\ UNCHANGED <<parking_spaces, bookings, payments>>
  /\ IF conflictingBookings(req[p].space, req[p].s, req[p].e) # {}
       THEN Finish(p, "Conflict")
       ELSE Goto(p, "insertBooking")

\* insert of the booking row; if (error) throw error.  The store refuses a
\* row whose space_id references no space (space_id UUID REFERENCES
\* parking_spaces(id)).
CreateInsert(p) ==
  /\ pc[p] = "insertBooking"
  /\ UNCHANGED <<parking_spaces, payments>>
  /\ \E error \in BOOLEAN :
       IF error \/ req[p].space \notin DOMAIN parking_spaces
         THEN /\ UNCHANGED bookings
              /\ Finish(p, "StoreError")
         ELSE /\ bookings' = Append(bookings,
                   [user_id |-> req[p].user, space_id |-> req[p].space,
                    start_time |-> req[p].s, end_time |-> req[p].e,
                    total_amount |-> TotalAmount(req[p].s, req[p].e, req[p].rate),
                    status |-> "pending", payment_status |-> "pending",
                    cancelled_at |-> FALSE])
              /\ pc' = [pc EXCEPT ![p] = "reserveSpace"]
              /\ req' = [req EXCEPT ![p].id = Len(bookings) + 1]
              /\ UNCHANGED <<out, calls>>
              /\ UNCHANGED clientVars

\* update of the space row to reserved, its result not looked at, then the
\* 201 response
CreateReserveSpace(p) ==
  /\ pc[p] = "reserveSpace"
  /\ parking_spaces' \in StoreWrite(parking_spaces,
       IF req[p].space \in DOMAIN parking_spaces
         THEN [parking_spaces EXCEPT ![req[p].space].status = "reserved"]
         ELSE parking_spaces)
  /\ UNCHANGED <<bookings, payments>>
  /\ Finish(p, "Created")

\* --------------------------------------------------- PUT /bookings/:id

\* request arrives, validation, read of the booking row, permission check
UpdateBooking(p) ==
  /\ CanCall(p)
  /\ \E u \in Users, id \in BookingIds, st \in BookingStatuses \cup {"none"} :
       LET r == [NoReq EXCEPT !.op = "update", !.id = id, !.status = st] IN
       /\ UNCHANGED <<parking_spaces, bookings, payments>>
       /\ IF UpdateCheck(u, id, st) # "ok" THEN Reply(p, "update", UpdateCheck(u, id, st))
          ELSE Enter(p, [r EXCEPT !.seen = bookings[id].status], "updateBooking")

\* update(updates) of the booking row; if (error) throw error; without a
\* status the response follows
UpdateWrite(p) ==
  /\ pc[p] = "updateBooking"
  /\ UNCHANGED <<parking_spaces, payments>>
  /\ \E error \in BOOLEAN :
       IF error
         THEN /\ UNCHANGED bookings
              /\ Finish(p, "StoreError")
         ELSE IF req[p].status = "none"
           THEN /\ UNCHANGED bookings
                /\ Finish(p, "Updated")
           ELSE /\ bookings' = [bookings EXCEPT ![req[p].id].status = req[p].status]
                /\ Goto(p, "updateSpace")

\* update of the space row derived from the requested status, its result not
\* looked at, then the response
UpdateSpace(p) ==
  /\ pc[p] = "updateSpace"
  /\ parking_spaces' \in StoreWrite(parking_spaces,
       [parking_spaces EXCEPT
          ![bookings[req[p].id].space_id].status = SpaceStatusFor(req[p].status)])
  /\ UNCHANGED <<bookings, payments>>
  /\ Finish(p, "Updated")

\* ------------------------------------------------ DELETE /bookings/:id

\* request arrives, read of the booking row, permission and cancellable checks
CancelBooking(p) ==
  /\ CanCall(p)
  /\ \E u \in Users, id \in BookingIds :
       LET r == [NoReq EXCEPT !.op = "cancel", !.id = id] IN
       /\ UNCHANGED <<parking_spaces, bookings, payments>>
       /\ IF CancelCheck(u, id) # "ok" THEN Reply(p, "cancel", CancelCheck(u, id))
          ELSE Enter(p, [r EXCEPT !.seen = bookings[id].status], "cancelWrite")

\* update of the booking row: cancelled, cancelled_at; if (updateError) throw
CancelWrite(p) ==
  /\ pc[p] = "cancelWrite"
  /\ UNCHANGED <<parking_spaces, payments>>
  /\ \E updateError \in BOOLEAN :
       IF updateError
         THEN /\ UNCHANGED bookings
              /\ Finish(p, "StoreError")
         ELSE /\ bookings' = [bookings EXCEPT ![req[p].id].status = "cancelled",
                                              ![req[p].id].cancelled_at = TRUE]
              /\ Goto(p, "freeSpace")

\* update of the space row to available, its result not looked at, then the
\* response
CancelFreeSpace(p) ==
  /\ pc[p] = "freeSpace"
  /\ parking_spaces' \in StoreWrite(parking_spaces,
       [parking_spaces EXCEPT ![bookings[req[p].id].space_id].status = "available"])
  /\ UNCHANGED <<bookings, payments>>
  /\ Finish(p, "Cancelled")

\* ------------------------------------------------------ POST /payments

\* request arrives, read of the booking row, owner / amount / paid checks,
\* and the simulated processor decides (Math.random() > 0.1)
ProcessPayment(p) ==
  /\ CanCall(p)
  /\ Len(payments) + Cardinality(Paying) < MaxPayments
  /\ \E u \in Users, id \in BookingIds, amount \in Amounts :
       LET r == [NoReq EXCEPT !.op = "pay", !.user = u, !.id = id, !.amount = amount] IN
       /\ UNCHANGED <<parking_spaces, bookings, payments>>
       /\ IF PaymentCheck(u, id, amount) # "ok" THEN Reply(p, "pay", PaymentCheck(u, id, amount))
          ELSE \E paymentStatus \in {"completed", "failed"} :
                 Enter(p, [r EXCEPT !.status = paymentStatus,
                                    !.seen = bookings[id].status], "insertPayment")

\* (mutant of PaymentInsert: a failed payment gives the space back)
PaymentInsertFreesSpace(p) ==
  /\ pc[p] = "insertPayment"
  /\ UNCHANGED bookings
  /\ \E paymentError \in BOOLEAN :
       IF paymentError
         THEN /\ UNCHANGED <<payments, parking_spaces>>
              /\ Finish(p, "StoreError")
         ELSE /\ payments' = Append(payments,
                   [user_id |-> req[p].user, booking_id |-> req[p].id,
                    amount |-> req[p].amount, status |-> req[p].status])
              /\ IF req[p].status = "completed"
                   THEN /\ UNCHANGED parking_spaces
                        /\ Goto(p, "markPaid")
                   ELSE /\ parking_spaces' = [parking_spaces EXCEPT
                               ![bookings[req[p].id].space_id].status = "available"]
                        /\ Finish(p, "PaymentFailed")

\* insert of the payment row with the status the processor reported (the
\* handler's 'completed' / 'failed', which the refund handler reads back);
\* a failed payment is answered here
PaymentInsert(p) ==
  /\ pc[p] = "insertPayment"
  /\ UNCHANGED <<parking_spaces, bookings>>
  /\ \E paymentError \in BOOLEAN :
       IF paymentError
         THEN /\ UNCHANGED payments
              /\ Finish(p, "StoreError")
         ELSE /\ payments' = Append(payments,
                   [user_id |-> req[p].user, booking_id |-> req[p].id,
                    amount |-> req[p].amount, status |-> req[p].status])
              /\ IF req[p].status = "completed"
                   THEN Goto(p, "markPaid")
                   ELSE Finish(p, "PaymentFailed")

\* update of the booking row: payment_status paid, status confirmed, in one
\* update whose result is not looked at; then the response
PaymentMarkPaid(p) ==
  /\ pc[p] = "markPaid"
  /\ bookings' \in StoreWrite(bookings,
       [bookings EXCEPT ![req[p].id] = PaidUpdate(bookings[req[p].id])])
  /\ UNCHANGED <<parking_spaces, payments>>
  /\ Finish(p, "Paid")

\* ------------------------------------------- POST /payments/:id/refund

\* request arrives, admin check, read of the payment row, completed check
RefundPayment(p) ==
  /\ CanCall(p)
  /\ \E u \in Users, id \in PaymentIds :
       LET r == [NoReq EXCEPT !.op = "refund", !.id = id] IN
       /\ UNCHANGED <<parking_spaces, bookings, payments>>
       /\ IF RefundCheck(u, id) # "ok" THEN Reply(p, "refund", RefundCheck(u, id))
          ELSE Enter(p, [r EXCEPT !.seen = payments[id].status], "refundWrite")

\* update of the payment row: refunded; if (updateError) throw updateError
RefundWrite(p) ==
  /\ pc[p] = "refundWrite"
  /\ UNCHANGED <<parking_spaces, bookings>>
  /\ \E updateError \in BOOLEAN :
       IF updateError
         THEN /\ UNCHANGED payments
              /\ Finish(p, "StoreError")
         ELSE /\ payments' = [payments EXCEPT ![req[p].id].status = "refunded"]
              /\ Goto(p, "refundBooking")

\* update of the booking row: payment_status refunded, its result not looked
\* at; then the response
RefundBooking(p) ==
  /\ pc[p] = "refundBooking"
  /\ bookings' \in StoreWrite(bookings,
       [bookings EXCEPT ![payments[req[p].id].booking_id].payment_status = "refunded"])
  /\ UNCHANGED <<parking_spaces, payments>>
  /\ Finish(p, "Refunded")

\* ------------------------------------------------------ PUT /spaces/:id

\* request that carries a status, taking the space out of service or putting
\* it back: the one awaited update of the space row; `error || !space` is
\* answered 404
UpdateParkingSpace(p) ==
  /\ CanCall(p)
  /\ UNCHANGED <<bookings, payments>>
  /\ \E u \in Users, sp \in SpaceIds \cup {"S0"} :
       IF SpaceUpdateCheck(u, sp) # "ok"
         THEN /\ UNCHANGED parking_spaces
              /\ Reply(p, "space", SpaceUpdateCheck(u, sp))
         ELSE \E error \in BOOLEAN :
                IF error
                  THEN /\ UNCHANGED parking_spaces
                       /\ Reply(p, "space", "SpaceNotFound")
                  ELSE \E status \in ServiceStatuses :
                         /\ parking_spaces' = [parking_spaces EXCEPT ![sp].status = status]
                         /\ Reply(p, "space", "SpaceUpdated")

\* ------------------------------------------ GET /spaces/:id/availability

\* request with startDate and endDate: the one awaited booking query;
\* if (error) throw error; else the list of windows is the response
GetAvailability(p) ==
  /\ CanCall(p)
  /\ UNCHANGED <<parking_spaces, bookings, payments>>
  /\ \E sp \in SpaceIds \cup {"S0"}, error \in BOOLEAN :
       IF AvailabilityCheck(sp) # "ok" THEN Reply(p, "availability", AvailabilityCheck(sp))
       ELSE IF error THEN Reply(p, "availability", "StoreError")
       ELSE Reply(p, "availability", "Listed")

\* --------------------------------------------------- DELETE /spaces/:id

\* request arrives, admin check, read of the space's pending, confirmed or
\* active bookings; 400 when there is one
DeleteParkingSpace(p) ==
  /\ CanCall(p)
  /\ UNCHANGED <<parking_spaces, bookings, payments>>
  /\ \E u \in Users, sp \in SpaceIds \cup {"S0"} :
       IF DeleteCheck(u, sp) # "ok" THEN Reply(p, "delete", DeleteCheck(u, sp))
       ELSE Enter(p, [NoReq EXCEPT !.op = "delete", !.user = u, !.space = sp], "deleteSpace")

\* delete of the space row, and with it of the bookings that reference it;
\* if (error) throw error.  A delete that matches no row is no error.  (The
\* payments of the removed bookings go with them; no payment exists where
\* spaces are deleted here.)
DeleteSpaceRow(p) ==
  /\ pc[p] = "deleteSpace"
  /\ UNCHANGED payments
  /\ \E error \in BOOLEAN :
       IF error
         THEN /\ UNCHANGED <<parking_spaces, bookings>>
              /\ Finish(p, "StoreError")
         ELSE /\ parking_spaces' = [sp \in DOMAIN parking_spaces \ {req[p].space} |->
                                      parking_spaces[sp]]
              /\ bookings' = CascadeBookings(req[p].space)
              /\ Finish(p, "SpaceDeleted")

\* ------------------------------------------------------- specification

ProcNext(p) ==
  \/ CreateBooking(p)
  \/ CreateCheckConflicts(p)
  \/ CreateInsert(p)
  \/ CreateReserveSpace(p)
  \/ UpdateBooking(p)
  \/ UpdateWrite(p)
  \/ UpdateSpace(p)
  \/ CancelBooking(p)
  \/ CancelWrite(p)
  \/ CancelFreeSpace(p)
  \/ ProcessPayment(p)
  \/ PaymentInsert(p)
  \/ PaymentMarkPaid(p)
  \/ RefundPayment(p)
  \/ RefundWrite(p)
  \/ RefundBooking(p)
  \/ UpdateParkingSpace(p)
  \/ GetAvailability(p)

Next == \E p \in Procs : ProcNext(p)

Spec == Init /\ [][Next]_vars

\* the store as a create request that ran alone leaves it: the customer's
\* pending booking of S1 for the first tick, S1 reserved
InitBooked ==
  /\ parking_spaces = [sp \in SpaceIds |->
        [status |-> IF sp = "S1" THEN "reserved" ELSE "available",
         hourly_rate |-> HourlyRate(sp)]]
  /\ bookings = <<[user_id |-> "cust", space_id |-> "S1", start_time |-> 0, end_time |-> 1,
                   total_amount |-> TotalAmount(0, 1, HourlyRate("S1")),
                   status |-> "pending", payment_status |-> "pending",
                   cancelled_at |-> FALSE]>>
  /\ payments = <<>>
  /\ pc = [p \in Procs |-> "idle"]
  /\ req = [p \in Procs |-> NoReq]
  /\ out = [p \in Procs |-> "none"]
  /\ calls = 0
  /\ ClientInit

\* the same requests arriving at a store that already holds a booking
SpecBooked == InitBooked /\ [][Next]_vars

\* booking creation together with the deletion of spaces
SpacesNext ==
  \E p \in Procs :
    \/ CreateBooking(p)
    \/ CreateCheckConflicts(p)
    \/ CreateInsert(p)
    \/ CreateReserveSpace(p)
    \/ DeleteParkingSpace(p)
    \/ DeleteSpaceRow(p)

SpecSpaces == Init /\ [][SpacesNext]_vars

\* the auth actions dispatched in any order, the server at rest
SpecAuth == Init /\ [][AuthNext]_vars

\* the provider calls of the browser, their service calls settling in any
\* order and either way
SpecParking == Init /\ [][ParkingNext]_vars

\* ============================================================== claims

Bookings == 1..Len(bookings)
Live(i) == bookings[i].status \in LiveStatuses

\* half-open windows [s1,e1) and [s2,e2) share an instant
Overlap(s1, e1, s2, e2) == s1 < e2 /\ s2 < e1

\* the owner of booking i, or any staff / admin account
Authorized(u, i) == bookings[i].user_id = u \/ Role(u) \in {"staff", "admin"}

\* the manual transitions of the booking state machine
LegalTransitions ==
  {<<"pending", "confirmed">>, <<"pending", "cancelled">>,
   <<"confirmed", "active">>, <<"confirmed", "cancelled">>,
   <<"active", "completed">>}

\* the least whole number of hours that covers d ticks
BilledHours(d) == CHOOSE h \in 0..MaxTime : h * TicksPerHour >= d /\ (h - 1) * TicksPerHour < d

\* C1: in every reachable state no two distinct live (pending, confirmed or
\* active) bookings of the same space have overlapping windows.
C1_NoDoubleBooking ==
  \A i, j \in Bookings :
    (i # j /\ bookings[i].space_id = bookings[j].space_id /\ Live(i) /\ Live(j))
      => ~Overlap(bookings[i].start_time, bookings[i].end_time,
                  bookings[j].start_time, bookings[j].end_time)

\* C2: two createBooking requests that were in flight together for overlapping
\* windows on the same space never both end with a created booking.
C2_AtMostOneWinner ==
  ~(/\ pc["r1"] = "done" /\ out["r1"] = "Created"
    /\ pc["r2"] = "done" /\ out["r2"] = "Created"
    /\ req["r1"].space = req["r2"].space
    /\ Overlap(req["r1"].s, req["r1"].e, req["r2"].s, req["r2"].e))

\* C3: for every booking that the conflict query looks at (same space, status
\* confirmed or active) and every requested window, the query reports the
\* booking exactly when the two windows overlap as half-open intervals.
C3_ConflictIffOverlap ==
  \A i \in Bookings, s \in Times, e \in Times :
    (ValidWindow(s, e) /\ bookings[i].status \in {"confirmed", "active"})
      => (i \in conflictingBookings(bookings[i].space_id, s, e)
            <=> Overlap(bookings[i].start_time, bookings[i].end_time, s, e))

\* C4: while a created booking [a,b) on space S is still pending, a later
\* createBooking on S for a window [b,c) that overlaps no live booking of S
\* ends with a created booking.
C4_TouchingWindowAccepted ==
  \A i \in Bookings, e \in Times :
    LET b == bookings[i] IN
    (/\ Quiet
     /\ b.status = "pending"
     /\ ValidWindow(b.end_time, e)
     /\ \A j \in Bookings :
          (Live(j) /\ bookings[j].space_id = b.space_id)
            => ~Overlap(bookings[j].start_time, bookings[j].end_time, b.end_time, e))
      => CreateOutcome(b.space_id, b.end_time, e) = "Created"

\* C5: while a created booking [a,b) on space S is still pending, a later
\* createBooking on S for a window overlapping [a,b) ends with Conflict.
C5_OverlapRejectedAsConflict ==
  \A i \in Bookings, s \in Times, e \in Times :
    LET b == bookings[i] IN
    (/\ Quiet
     /\ b.status = "pending"
     /\ ValidWindow(s, e)
     /\ Overlap(b.start_time, b.end_time, s, e))
      => CreateOutcome(b.space_id, s, e) = "Conflict"

\* C6: every persisted booking is charged the whole hours that cover its
\* window times the hourly rate of its space, a positive amount, and no step
\* of any request changes the amount of a persisted booking.
C6_AmountIsCeilHoursTimesRate ==
  \A i \in Bookings :
    /\ bookings[i].total_amount =
         BilledHours(bookings[i].end_time - bookings[i].start_time)
           * HourlyRate(bookings[i].space_id)
    /\ bookings[i].total_amount > 0

C6_AmountNeverChanges ==
  \A i \in Bookings : bookings'[i].total_amount = bookings[i].total_amount

C7_IllegalTransitionRejected ==
  \A u \in Users, i \in Bookings, st \in BookingStatuses :
    (Authorized(u, i) /\ <<bookings[i].status, st>> \notin LegalTransitions)
      => UpdateCheck(u, i, st) = "IllegalTransition"

\* C8: once the status of a booking is completed or cancelled no step of any
\* request changes it.
C8_TerminalStatusStays ==
  [][\A i \in Bookings :
       bookings[i].status \in {"completed", "cancelled"}
         => bookings'[i].status = bookings[i].status]_vars

\* C9 as stated: cancelBooking on a completed booking is answered
\* NotCancellable whoever asks.
C9_CompletedAlwaysNotCancellable ==
  \A u \in Users, i \in Bookings :
    bookings[i].status = "completed" => CancelCheck(u, i) = "NotCancellable"

\* C9 as amended: cancelBooking on a completed booking is answered
\* NotCancellable when the owner or staff / admin asks and Forbidden when
\* anybody else asks, and no cancel request that goes on to write has fetched
\* a completed booking, so neither the booking nor its space is changed.
C9_CompletedNeverCancelled ==
  /\ \A u \in Users, i \in Bookings :
       bookings[i].status = "completed"
         => CancelCheck(u, i) = (IF Authorized(u, i) THEN "NotCancellable" ELSE "Forbidden")
  /\ \A p \in Procs :
       pc[p] \in {"cancelWrite", "freeSpace"} => req[p].seen # "completed"

\* C9 witness: the only booking is completed, its space is free, and a
\* cancel request has just been answered NotCancellable.
C9_Witness ==
  /\ Len(bookings) = 1
  /\ bookings[1].status = "completed"
  /\ bookings[1].cancelled_at = FALSE
  /\ calls = 3
  /\ pc["r1"] = "done"
  /\ out["r1"] = "NotCancellable"

\* C10: cancelBooking by the owner or staff on a booking that is active,
\* completed or cancelled is answered NotCancellable.
C10_OnlyPendingOrConfirmedCancellable ==
  \A u \in Users, i \in Bookings :
    (Authorized(u, i) /\ bookings[i].status \in {"active", "completed", "cancelled"})
      => CancelCheck(u, i) = "NotCancellable"

\* the space status the booking lifecycle prescribes for a booking status
ExpectedSpaceStatus(st) ==
  IF st \in {"pending", "confirmed"} THEN "reserved"
  ELSE IF st = "active" THEN "occupied"
  ELSE "available"

\* a request that ran alone has been answered at slot r1
AnsweredAlone(o) == pc["r1"] = "done" /\ out["r1"] = o /\ pc["r2"] = "idle"

\* C11: the space write of an update request that asked for a status, when
\* it lands, stores the status the new booking status prescribes: reserved
\* for pending or confirmed, occupied for active, available for completed or
\* cancelled.
C11_SpaceFollowsBookingStatus ==
  [][\A p \in Procs :
       (pc[p] = "updateSpace" /\ pc'[p] = "done")
         => LET sp == bookings[req[p].id].space_id IN
            parking_spaces'[sp].status \in
              {parking_spaces[sp].status, ExpectedSpaceStatus(req[p].status)}]_vars

\* C12: a step of a booking operation (the continuation of a create, update,
\* cancel or payment request) leaves every space that is in maintenance in
\* maintenance; only the space update leads out of it.
C12_MaintenanceKept ==
  [][calls' = calls
       => \A sp \in SpaceIds :
            parking_spaces[sp].status = "maintenance"
              => parking_spaces'[sp].status = "maintenance"]_vars

\* the windows that pass the request validation
ValidWindows == {w \in Times \X Times : ValidWindow(w[1], w[2])}

\* C13: a createBooking request with a valid window is answered
\* SpaceNotFound when the space row is missing and SpaceUnavailable when its
\* status is anything but available (maintenance included); it goes on, and
\* ends with a created booking, only after it read an existing space with
\* status available; and the step that answers SpaceNotFound or
\* SpaceUnavailable persists no booking and changes no space.
C13_RefusedUnlessAvailable ==
  /\ \A sp \in SpaceIds \cup {"S0"}, w \in ValidWindows :
       LET answer == CreateCheck(sp, w[1], w[2]) IN
       IF sp \notin DOMAIN parking_spaces THEN answer = "SpaceNotFound"
       ELSE IF parking_spaces[sp].status # "available" THEN answer = "SpaceUnavailable"
       ELSE answer = "ok"
  /\ \A p \in Procs :
       (pc[p] \in {"checkConflicts", "insertBooking", "reserveSpace"}
          \/ (pc[p] = "done" /\ out[p] = "Created"))
         => (req[p].space \in DOMAIN parking_spaces /\ req[p].seen = "available")

C13_RefusalWritesNothing ==
  \A p \in Procs :
    (/\ calls' # calls
     /\ pc'[p] = "done"
     /\ req'[p].op = "create"
     /\ out'[p] \in {"SpaceNotFound", "SpaceUnavailable"})
      => UNCHANGED <<bookings, parking_spaces>>

C13_SpaceChecked == []C13_RefusedUnlessAvailable /\ [][C13_RefusalWritesNothing]_vars

\* C13 witness: the admin put S1 in maintenance and the createBooking that
\* followed was answered SpaceUnavailable; no booking exists and S1 is
\* still in maintenance.
C13_Witness ==
  /\ AnsweredAlone("SpaceUnavailable")
  /\ req["r1"].op = "create"
  /\ calls = 2
  /\ bookings = <<>>
  /\ parking_spaces["S1"].status = "maintenance"
  /\ parking_spaces["S2"].status = "available"

\* C14: once a createBooking request that ran alone has been answered with a
\* created booking, both of its writes are in the store: the booking is
\* persisted as pending and its space is reserved.
C14_CreateWritesTogether ==
  AnsweredAlone("Created")
    => /\ req["r1"].id \in Bookings
       /\ bookings[req["r1"].id].status = "pending"
       /\ parking_spaces[req["r1"].space].status = "reserved"

\* C15: once an update request that asked for a status, or a cancel request,
\* that ran alone has been answered with success, the booking carries the
\* new status and its space carries the status the handler derives from it.
C15_StatusWritesTogether ==
  LET id == req["r1"].id IN
  /\ AnsweredAlone("Cancelled")
       => /\ bookings[id].status = "cancelled"
          /\ parking_spaces[bookings[id].space_id].status = "available"
  /\ (AnsweredAlone("Updated") /\ req["r1"].status # "none")
       => /\ bookings[id].status = req["r1"].status
          /\ parking_spaces[bookings[id].space_id].status = SpaceStatusFor(req["r1"].status)

\* C16 as stated: a payment request whose amount differs from the booking's
\* total amount is answered AmountMismatch whoever sends it.
C16_MismatchAlwaysAmountMismatch ==
  \A u \in Users, i \in Bookings, amount \in Amounts :
    amount # bookings[i].total_amount => PaymentCheck(u, i, amount) = "AmountMismatch"

\* C16 as amended: a payment request whose amount differs from the booking's
\* total amount is answered AmountMismatch when the booking's owner sends it
\* and Forbidden when anybody else does; every payment request that goes on
\* to write, and every payment record, carries the booking's total amount;
\* and the step that answers AmountMismatch or Forbidden creates no payment
\* record and changes no booking.
C16_MismatchRefused ==
  /\ \A i \in Bookings :
       \A amount \in Amounts \ {bookings[i].total_amount}, u \in Users :
         PaymentCheck(u, i, amount) =
           (IF bookings[i].user_id = u THEN "AmountMismatch" ELSE "Forbidden")
  /\ \A p \in Procs :
       pc[p] \in {"insertPayment", "markPaid"}
         => req[p].amount = bookings[req[p].id].total_amount
  /\ \A k \in 1..Len(payments) :
       payments[k].amount = bookings[payments[k].booking_id].total_amount

C16_RefusalWritesNothing ==
  \A p \in Procs :
    (/\ calls' # calls
     /\ pc'[p] = "done"
     /\ req'[p].op = "pay"
     /\ out'[p] \in {"AmountMismatch", "Forbidden"})
      => UNCHANGED <<bookings, payments>>

C16_AmountChecked == []C16_MismatchRefused /\ [][C16_RefusalWritesNothing]_vars

\* C16 witness: a payment request on the only booking has just been answered
\* AmountMismatch; the booking is still pending / pending and no payment
\* record exists.
C16_Witness ==
  /\ AnsweredAlone("AmountMismatch")
  /\ req["r1"].op = "pay"
  /\ Len(bookings) = 1
  /\ bookings[1].status = "pending"
  /\ bookings[1].payment_status = "pending"
  /\ payments = <<>>

\* C17: once a payment request that ran alone has been answered with the
\* processor's failure, the booking's payment status is failed and its
\* status is the one the handler read.
C17_FailureRecordedOnBooking ==
  (AnsweredAlone("PaymentFailed") /\ req["r1"].op = "pay")
    => /\ bookings[req["r1"].id].payment_status = "failed"
       /\ bookings[req["r1"].id].status = req["r1"].seen

\* C18: the payment handler writes payment_status paid and status confirmed
\* in one step: every step that makes a booking paid leaves it confirmed, the
\* booking write of a payment request stores both fields or neither, and
\* once a successful payment of a pending booking that ran alone has been
\* answered the booking is neither paid but pending nor confirmed but unpaid.
C18_PaidWithConfirmed ==
  /\ \A i \in Bookings :
       (bookings'[i].payment_status = "paid" /\ bookings[i].payment_status # "paid")
         => bookings'[i].status = "confirmed"
  /\ \A p \in Procs :
       (pc[p] = "markPaid" /\ pc'[p] = "done")
         => LET b == bookings[req[p].id] IN
            bookings' \in {bookings,
                           [bookings EXCEPT ![req[p].id] =
                              [b EXCEPT !.payment_status = "paid", !.status = "confirmed"]]}

C18_NoHalfPaidBooking ==
  (AnsweredAlone("Paid") /\ req["r1"].seen = "pending")
    => LET b == bookings[req["r1"].id] IN
       \/ b.payment_status = "paid" /\ b.status = "confirmed"
       \/ b.payment_status # "paid" /\ b.status = "pending"

C18_PaymentAtomic == []C18_NoHalfPaidBooking /\ [][C18_PaidWithConfirmed]_vars

\* C18 witness: the payment of a pending booking that ran alone has been
\* answered with success; its record is completed and the booking is paid and
\* confirmed.
C18_Witness ==
  /\ AnsweredAlone("Paid")
  /\ req["r1"].seen = "pending"
  /\ Len(payments) = 1
  /\ payments[1].status = "completed"
  /\ bookings[req["r1"].id].payment_status = "paid"
  /\ bookings[req["r1"].id].status = "confirmed"

C20_ForbiddenIffNotAuthorized ==
  \A u \in Users, i \in Bookings :
    LET denied == ~Authorized(u, i) IN
    /\ (CancelCheck(u, i) = "Forbidden") = denied
    /\ \A st \in BookingStatuses \cup {"none"} :
         (UpdateCheck(u, i, st) = "Forbidden") = denied

C20_ForbiddenWritesNothing ==
  \A p \in Procs :
    (/\ calls' # calls
     /\ pc'[p] = "done"
     /\ req'[p].op \in {"update", "cancel"}
     /\ out'[p] = "Forbidden")
      => UNCHANGED <<bookings, parking_spaces, payments>>

C20_Permission == []C20_ForbiddenIffNotAuthorized /\ [][C20_ForbiddenWritesNothing]_vars

\* C20 witness: a cancel request by a customer who does not own the only
\* booking has just been answered Forbidden, while the admin's request would
\* pass the permission check; the booking is pending and its space reserved.
C20_Witness ==
  /\ AnsweredAlone("Forbidden")
  /\ req["r1"].op = "cancel"
  /\ Len(bookings) = 1
  /\ CancelCheck("guest", 1) = "Forbidden"
  /\ CancelCheck("boss", 1) = "ok"
  /\ bookings[1].status = "pending"
  /\ parking_spaces[bookings[1].space_id].status = "reserved"

\* C21: the availability query of a space for [start, end) returns exactly
\* the windows of that space's pending, confirmed or active bookings that
\* overlap [start, end) as half-open intervals, and is answered SpaceNotFound
\* when the space does not exist.
C21_AvailabilityListsLiveOverlaps ==
  \A sp \in SpaceIds \cup {"S0"}, w \in ValidWindows :
    IF sp \notin DOMAIN parking_spaces THEN AvailabilityCheck(sp) = "SpaceNotFound"
    ELSE /\ AvailabilityCheck(sp) = "ok"
         /\ availability(sp, w[1], w[2]) =
              {<<bookings[i].start_time, bookings[i].end_time>> :
                 i \in {j \in Bookings :
                          /\ bookings[j].space_id = sp
                          /\ Live(j)
                          /\ Overlap(bookings[j].start_time, bookings[j].end_time,
                                     w[1], w[2])}}

\* C22: for a booking fetched pending or confirmed, a cancel request and an
\* update request asking for cancelled write the same booking status
\* (cancelled) and the same space status (available); the cancel request
\* also records the cancellation timestamp, the update request does not.
C22_SameWrites ==
  \A p \in Procs :
    LET id == req[p].id IN
    req[p].seen \in {"pending", "confirmed"} =>
      /\ (pc[p] = "cancelWrite" /\ pc'[p] = "freeSpace")
           => bookings' = [bookings EXCEPT ![id].status = "cancelled",
                                           ![id].cancelled_at = TRUE]
      /\ (pc[p] = "updateBooking" /\ req[p].status = "cancelled" /\ pc'[p] = "updateSpace")
           => bookings' = [bookings EXCEPT ![id].status = "cancelled"]
      /\ (/\ pc'[p] = "done"
          /\ \/ pc[p] = "freeSpace"
             \/ pc[p] = "updateSpace" /\ req[p].status = "cancelled")
           => parking_spaces' \in
                {parking_spaces,
                 [parking_spaces EXCEPT ![bookings[id].space_id].status = "available"]}

C22_CancelLikeUpdateCancelled == [][C22_SameWrites]_vars

\* C22 witness: a cancel request that ran alone on a pending booking has been
\* answered; the booking is cancelled with its timestamp, its space is
\* available, and an update asking for cancelled would pass its checks too.
C22_Witness ==
  /\ AnsweredAlone("Cancelled")
  /\ req["r1"].seen = "pending"
  /\ bookings[req["r1"].id].status = "cancelled"
  /\ bookings[req["r1"].id].cancelled_at
  /\ parking_spaces[bookings[req["r1"].id].space_id].status = "available"
  /\ UpdateCheck("cust", req["r1"].id, "cancelled") = "ok"

\* C23: a create, payment, update or cancel request is answered with success
\* only when the store write it awaited last went through: the step that
\* answers Created, Paid, Updated or Cancelled leaves the written row in the
\* store.
C23_SuccessMeansWritten ==
  [][\A p \in Procs :
       (/\ InFlight(p)
        /\ pc'[p] = "done"
        /\ out'[p] \in {"Created", "Paid", "Updated", "Cancelled"})
         => LET id == req[p].id IN
            CASE pc[p] = "reserveSpace" ->
                   parking_spaces'[req[p].space].status = "reserved"
              [] pc[p] = "updateSpace" ->
                   parking_spaces'[bookings[id].space_id].status = SpaceStatusFor(req[p].status)
              [] pc[p] = "freeSpace" ->
                   parking_spaces'[bookings[id].space_id].status = "available"
              [] pc[p] = "markPaid" ->
                   bookings'[id] = PaidUpdate(bookings[id])
              [] OTHER -> TRUE]_vars

\* C24: in every reachable state each booking has at most one payment record
\* with status completed.
C24_AtMostOneCompleted ==
  \A k, l \in 1..Len(payments) :
    (/\ payments[k].booking_id = payments[l].booking_id
     /\ payments[k].status = "completed"
     /\ payments[l].status = "completed")
      => k = l

\* C25: in every reachable state a space that has at least one pending,
\* confirmed or active booking is not available.
C25_BookedSpaceNotAvailable ==
  \A i \in Bookings :
    (Live(i) /\ bookings[i].space_id \in DOMAIN parking_spaces)
      => parking_spaces[bookings[i].space_id].status # "available"

\* C26: the booking write of a successful payment never moves the booking
\* status backwards: a booking that is active (or completed or cancelled)
\* when the write is made keeps its status instead of becoming confirmed.
C26_PaymentKeepsLaterStatus ==
  [][\A p \in Procs :
       (/\ pc[p] = "markPaid"
        /\ pc'[p] = "done"
        /\ bookings[req[p].id].status \in {"active", "completed", "cancelled"})
         => bookings'[req[p].id].status = bookings[req[p].id].status]_vars

\* C27: once a refund request that ran alone has been answered with success,
\* the caller was an admin, the payment it fetched was completed, the payment
\* is refunded and the booking's payment status is refunded.
C27_RefundRecordedOnBoth ==
  (AnsweredAlone("Refunded") /\ req["r1"].op = "refund")
    => /\ req["r1"].seen = "completed"
       /\ payments[req["r1"].id].status = "refunded"
       /\ bookings[payments[req["r1"].id].booking_id].payment_status = "refunded"

\* C28: no step removes a space that has a pending, confirmed or active
\* booking, also when the delete request is in flight together with a create
\* request on the same space.
C28_DeleteSparesBookedSpace ==
  [][\A sp \in DOMAIN parking_spaces :
       sp \notin DOMAIN parking_spaces' => activeBookings(sp) = {}]_vars

\* C29: after any sequence of auth actions from the initial auth state,
\* isAuthenticated is true exactly when user is not null, and UPDATE_USER
\* with any payload leaves user null when nobody is logged in.
C29_AuthenticatedIffUser ==
  /\ auth.isAuthenticated <=> auth.user # null
  /\ auth.user = null
       => \A userData \in PartialUsers :
            authReducer(auth, [type |-> "UPDATE_USER", payload |-> userData]).user = null

C29_UpdateNeverLogsIn ==
  (auth.user = null /\ UpdateUser) => (auth'.user = null /\ ~auth'.isAuthenticated)

C29_AuthConsistent == []C29_AuthenticatedIffUser /\ [][C29_UpdateNeverLogsIn]_vars

\* C29 witness: a user is logged in (LOGIN_SUCCESS), a later action turned
\* loading on again, and an UPDATE_USER carrying another name would change
\* the user and keep the session.
C29_Witness ==
  /\ auth.user # null
  /\ auth.isAuthenticated
  /\ auth.loading
  /\ auth.user.name = "Ann"
  /\ LET next == authReducer(auth, [type |-> "UPDATE_USER", payload |-> [name |-> "Bob"]]) IN
     next.user # null /\ next.user.name = "Bob" /\ next.isAuthenticated

\* C30: in the browser's ParkingProvider the loading flag is true as long as
\* a bookSpace call awaits its service call and false once no bookSpace and
\* no refreshSpaces call awaits one, and the step in which a bookSpace call
\* fails adds no booking and changes no space in the provider's state.
C30_LoadingWhileInFlight ==
  /\ (\E k \in ClientCalls : Pending(k) /\ promises[k].fn = "bookSpace") => parking.loading
  /\ (\A k \in ClientCalls : ~Pending(k)) => ~parking.loading

C30_FailureAddsNothing ==
  \A k \in ClientCalls :
    (Pending(k) /\ promises[k].fn = "bookSpace" /\ promises'[k].state = "rejected")
      => (parking'.bookings = parking.bookings /\ parking'.spaces = parking.spaces)

C30_LoadingFlag == []C30_LoadingWhileInFlight /\ [][C30_FailureAddsNothing]_vars

====
